---- MODULE Spec2Model ----
(***************************************************************************)
(* Indice de Vulnerabilidad Asociado al Contexto Urbano.                   *)
(*                                                                         *)
(* Model of Indice_de_vulnerabilidad_asociado_al_contexto_urbano.py: the   *)
(* batch script that, for a population of parcels, computes six nearest-   *)
(* feature distance columns, their quartile ranks (pd.qcut), the group     *)
(* sums, the fixed-range normalisation, the traffic-noise lookup (sjoin),  *)
(* the noise band (pd.cut), the composite index, and writes the result.    *)
(*                                                                         *)
(* Geometry is one-dimensional: a parcel is a point on a line (its         *)
(* position is also its representative point), a reference feature is a    *)
(* point, a noise polygon is an open interval carrying DB_HI.  Distances   *)
(* are integers; quantile edges are kept multiplied by 4 so that pandas'   *)
(* linear interpolation at q = k/4 is exact.  Decibels are in thousandths  *)
(* of a dB (64.999 dB = 64999).  A missing value (NaN) of a column is the  *)
(* empty tuple << >> and a present value v is << v >>.                      *)
(***************************************************************************)
EXTENDS Integers, Sequences, FiniteSets, TLC

VARIABLES pc, geom, ruido_trafico, parcelas, err, resultado, traza

vars == <<pc, geom, ruido_trafico, parcelas, err, resultado, traza>>

\* ------------------------------------------------------------------ bounds

\* Largest parcel population explored.
MaxParcelas == 4
\* Largest coordinate of a parcel or of a reference feature in the
\* quartile-only specification.
MaxPos == 3
\* Largest number of polygons of a noise layer in the noise-only specification.
MaxPoligonos == 2
\* Largest number of parcels in the noise-only specification.
MaxParcelasRuido == 2
\* Largest number of rows of a score column in the normaliser-only
\* specification, and how far below min_ref / above max_ref a score may lie.
MaxFilasNorm == 2
MaxExceso == 1

\* ------------------------------------------------------------ small helpers

NaN == << >>

IsNaN(x) == x = << >>

Abs(x) == IF x < 0 THEN -x ELSE x

Min(S) == CHOOSE x \in S : \A y \in S : x <= y

Filas(col) == 1..Len(col)

\* parcelas[nombre] = col  (a new or overwritten column of the table)
ConColumna(df, nombre, col) ==
    [c \in (DOMAIN df) \cup {nombre} |-> IF c = nombre THEN col ELSE df[c]]

\* ------------------------------------------------------- pandas primitives

\* Series.min() of the distances from one parcel to every feature of a
\* layer; the minimum of an empty Series is NaN, no error is raised.
DistanciaMinima(capa, p) ==
    IF capa = {} THEN NaN ELSE << Min({Abs(p - f) : f \in capa}) >>

\* np.sort of the non-missing values of a column.
Ordenar(valores) ==
    LET m == Len(valores)
        menores(v) == Cardinality({i \in 1..m : valores[i] < v})
        hasta(v) == Cardinality({i \in 1..m : valores[i] <= v})
    IN [i \in 1..m |->
          CHOOSE v \in {valores[j] : j \in 1..m} : menores(v) < i /\ i <= hasta(v)]

\* Series.quantile([0, .25, .5, .75, 1]) with linear interpolation, each edge
\* multiplied by 4.  With no value at all every edge is NaN.
Cuantiles4(col) ==
    LET presentes == SelectSeq(col, LAMBDA x : ~IsNaN(x))
        v == Ordenar([i \in 1..Len(presentes) |-> presentes[i][1]])
        m == Len(v)
        borde(k) ==
            LET j == (k * (m - 1)) \div 4
                r == (k * (m - 1)) % 4
            IN IF r = 0 THEN 4 * v[j + 1]
               ELSE 4 * v[j + 1] + r * (v[j + 2] - v[j + 1])
    IN IF m = 0 THEN [k \in 1..5 |-> NaN]
       ELSE [k \in 1..5 |-> << borde(k - 1) >>]

\* pandas _bins_to_cuts for one value, with include_lowest=True:
\* ids = bins.searchsorted(x, side="left" if right else "right"); with right,
\* x == bins[0] gets 1; a value below the first or above the last edge, or a
\* missing one, gets NaN; any other gets labels[ids - 1].
BinsToCuts(x, bins_, labels, right) ==
    IF IsNaN(x) THEN NaN
    ELSE LET ids == IF right
                    THEN Cardinality({k \in 1..Len(bins_) : bins_[k] < x[1]})
                    ELSE Cardinality({k \in 1..Len(bins_) : bins_[k] <= x[1]})
             id == IF right /\ x[1] = bins_[1] THEN 1 ELSE ids
         IN IF id = 0 \/ id = Len(bins_) THEN NaN ELSE << labels[id] >>

\* pd.qcut(dist, q=4, ...): duplicates="raise" makes repeated edges (all-NaN
\* edges included) a ValueError.
QcutError(dist) ==
    LET q == Cuantiles4(dist)
    IN Cardinality({q[k] : k \in 1..5}) < 5

\* pd.qcut(dist, q=4, labels=labels) when the edges are unique: the quantile
\* edges are the bins, closed on the right, the lowest included.
QcutConEtiquetas(dist, labels) ==
    LET q == Cuantiles4(dist)
        bordes == [k \in 1..5 |-> q[k][1]]
    IN [i \in Filas(dist) |->
          BinsToCuts(IF IsNaN(dist[i]) THEN NaN ELSE << 4 * dist[i][1] >>,
                     bordes, labels, TRUE)]

\* Labels given in the opposite order (4 = nearest).
QcutInvertido(dist) == QcutConEtiquetas(dist, <<4, 3, 2, 1>>)

\* pd.qcut(dist, q=4, labels=[1, 2, 3, 4])
Qcut(dist) == QcutConEtiquetas(dist, <<1, 2, 3, 4>>)

\* ------------------------------------------------------- calcular_cuartil

\* dist = parcelas.geometry.apply(lambda geom: capa.distance(geom).min())
Distancias(g, capa) == [i \in Filas(g) |-> DistanciaMinima(capa, g[i])]

\* calcular_cuartil(parcelas, capa, nombre, dist_col, cuart_col): the distance
\* column is stored before pd.qcut runs; when pd.qcut raises, the rank column
\* is never assigned.  Returns the table and the exception raised ("" if none).
calcular_cuartil(df, g, capa, dist_col, cuart_col) ==
    LET dist == Distancias(g, capa)
        con_dist == ConColumna(df, dist_col, dist)
    IN IF QcutError(dist)
       THEN [df |-> con_dist, err |-> "ValueError"]
       ELSE [df |-> ConColumna(con_dist, cuart_col, Qcut(dist)), err |-> ""]

\* Series.round(0) of num/d: numpy rounds an exact half to the even integer.
\* Round half up, the tie-break numpy does not use.
RedondearMitadArriba(num, d) ==
    LET q == num \div d
        r == num % d
    IN IF 2 * r < d THEN q ELSE q + 1

Redondear(num, d) ==
    LET q == num \div d
        r == num % d
    IN IF 2 * r < d THEN q
       ELSE IF 2 * r > d THEN q + 1
       ELSE IF q % 2 = 0 THEN q ELSE q + 1

Clip(x, lo, hi) == IF x < lo THEN lo ELSE IF x > hi THEN hi ELSE x

\* normalizar_rango_fijo for one score: 1 + 3*(s - min_ref)/(max_ref - min_ref),
\* clip(1, 4), round(0), astype(int).  The value is kept as a numerator over
\* d = max_ref - min_ref.
NormalizarValor(s, min_ref, max_ref) ==
    LET d == max_ref - min_ref
        num == d + 3 * (s - min_ref)
    IN Redondear(Clip(num, d, 4 * d), d)

\* A rescale onto [1,4] between the smallest and the largest score observed in
\* the column, instead of the theoretical bounds passed by the caller.
NormalizarObservado(col, min_ref, max_ref) ==
    LET vistos == {col[i] : i \in Filas(col)}
        lo == Min(vistos)
        hi == CHOOSE x \in vistos : \A y \in vistos : x >= y
    IN [i \in Filas(col) |->
          IF hi = lo THEN 1 ELSE NormalizarValor(col[i], lo, hi)]

normalizar_rango_fijo(col, min_ref, max_ref) ==
    [i \in Filas(col) |-> NormalizarValor(col[i], min_ref, max_ref)]

\* ---------------------------------------------------------- noise lookup

\* predicate="within": the point lies in the interior of the polygon.
Within(punto, poligono) == poligono.lo < punto /\ punto < poligono.hi

\* gpd.sjoin(centroides, ruido_trafico[["geometry","DB_HI"]], how="left"):
\* one row per (parcel, polygon containing its point) pair, in parcel order,
\* and one row with a missing DB_HI for a parcel no polygon contains.
RECURSIVE Sjoin(_, _, _)
Sjoin(centroides, poligonos, i) ==
    IF i > Len(centroides) THEN << >>
    ELSE LET coinciden == SelectSeq(poligonos, LAMBDA q : Within(centroides[i], q))
             filas == IF coinciden = << >>
                      THEN << [index_left |-> i, DB_HI |-> NaN] >>
                      ELSE [k \in 1..Len(coinciden) |->
                              [index_left |-> i, DB_HI |-> << coinciden[k].DB_HI >>]]
         IN filas \o Sjoin(centroides, poligonos, i + 1)

\* Lines 94-99: the representative points, the spatial join, and
\* parcelas["DB_VEH"] = joined_veh["DB_HI"].values.  Selecting a DB_HI column
\* the layer does not have is a KeyError; assigning an array whose length is
\* not the number of parcels is a ValueError.
UnirRuido(df, g, capa_ruido) ==
    LET con_centroide == ConColumna(df, "centroid", g)
        joined_veh == Sjoin(g, capa_ruido.poligonos, 1)
    IN IF ~capa_ruido.tiene_DB_HI
       THEN [df |-> con_centroide, err |-> "KeyError"]
       ELSE IF Len(joined_veh) # Len(g)
       THEN [df |-> con_centroide, err |-> "ValueError"]
       ELSE [df |-> ConColumna(con_centroide, "DB_VEH",
                               [i \in Filas(g) |-> joined_veh[i].DB_HI]),
             err |-> ""]

\* bins=[0, 45, 55, 65, 100] in thousandths of a decibel.
bins == <<0, 45000, 55000, 65000, 100000>>

\* pd.cut called with right=False: bins closed on the left.
ClasificarDecibeliosIzquierda(col) ==
    [i \in Filas(col) |-> BinsToCuts(col[i], bins, <<1, 2, 3, 4>>, FALSE)]

\* Lines 102-107: pd.cut(DB_VEH, bins, labels=[1,2,3,4], include_lowest=True)
\* (right=True by default) then astype("float"), which keeps a missing band
\* missing.
ClasificarDecibelios(col) ==
    [i \in Filas(col) |-> BinsToCuts(col[i], bins, <<1, 2, 3, 4>>, TRUE)]

\* ---------------------------------------------------- sums and final index

\* Series.astype(int) of a column that may hold NaN raises on a NaN.
TieneNaN(col) == \E i \in Filas(col) : IsNaN(col[i])

\* Lines 71-73.
SumarGrupos(df) ==
    LET c(nombre) == df[nombre]
        usadas == {"cuart_zver", "cuart_metr", "cuart_bus",
                   "cuart_salu", "cuart_edu", "cuart_depo"}
        F == Filas(df["cuart_zver"])
    IN IF \E nombre \in usadas : TieneNaN(df[nombre])
       THEN [df |-> df, err |-> "ValueError"]
       ELSE [df |->
               ConColumna(
                 ConColumna(
                   ConColumna(df, "sum_zver", [i \in F |-> c("cuart_zver")[i][1]]),
                   "sum_trans",
                   [i \in F |-> c("cuart_metr")[i][1] + c("cuart_bus")[i][1]]),
                 "sum_serv",
                 [i \in F |-> c("cuart_salu")[i][1] + c("cuart_edu")[i][1]
                                + c("cuart_depo")[i][1]]),
             err |-> ""]

\* A composer that counts an absent band as the lowest band.
FillnaUno(x) == IF IsNaN(x) THEN 1 ELSE x[1]

\* ru_veh.fillna(0).astype(int)
Fillna(x) == IF IsNaN(x) THEN 0 ELSE x[1]

\* Lines 114-119.
indice_contexto_total(df) ==
    [i \in Filas(df["sum_zver"]) |->
        df["sum_zver"][i] + df["sum_tran_n"][i] + df["sum_serv_n"][i]
          + Fillna(df["ru_veh"][i])]

\* Line 126: parcelas.drop(columns=["centroid"])
SinCentroide(df) == [c \in (DOMAIN df) \ {"centroid"} |-> df[c]]

\* ------------------------------------------------------ the script's order

EtapasEnOrden ==
    << "cuartil_zver", "cuartil_metro", "cuartil_bus", "cuartil_salud",
       "cuartil_edu", "cuartil_deport", "suma_grupos", "norm_trans",
       "norm_serv", "union_ruido", "clasificar_ruido", "indice", "exportar" >>

\* The statement group after `etapa` in `orden`, "fin" after the last.
SiguienteEn(orden, etapa) ==
    LET k == CHOOSE j \in 1..Len(orden) : orden[j] = etapa
    IN IF k = Len(orden) THEN "fin" ELSE orden[k + 1]

\* The export placed right after the normalisation, before the noise stages.
SiguienteExportaAntes(etapa) ==
    SiguienteEn(<< "cuartil_zver", "cuartil_metro", "cuartil_bus", "cuartil_salud",
                   "cuartil_edu", "cuartil_deport", "suma_grupos", "norm_trans",
                   "norm_serv", "exportar", "union_ruido", "clasificar_ruido",
                   "indice" >>, etapa)

\* The statement group that runs after `etapa` when it raised nothing.
Siguiente(etapa) == SiguienteEn(EtapasEnOrden, etapa)

\* One top-level statement group of the script: it runs only if nothing raised
\* before; an exception it raises ends the run there.
Paso(etapa, r) ==
    /\ pc = etapa
    /\ err = ""
    /\ parcelas' = r.df
    /\ err' = r.err
    /\ pc' = IF r.err = "" THEN Siguiente(etapa) ELSE "abortado"
    /\ traza' = IF r.err = "" THEN Append(traza, etapa) ELSE traza

Cuartil(etapa, capas, dist_col, cuart_col) ==
    /\ \E capa \in capas :
         Paso(etapa, calcular_cuartil(parcelas, geom, capa, dist_col, cuart_col))
    /\ UNCHANGED <<geom, ruido_trafico, resultado>>

TablaVacia == [c \in {} |-> << >>]

\* ------------------------------------------------ specification: the script

\* Parcel i stands at coordinate i.
ParcelasEnFila(k) == [i \in 1..k |-> i]

\* A reference layer of the run: empty, or one feature at a parcel's coordinate.
CapasDeUnPunto == {{}} \cup {{f} : f \in 1..Len(geom)}

Poligono(lo, hi, db) == [lo |-> lo, hi |-> hi, DB_HI |-> db]

CapaRuido(tiene, poligonos) == [tiene_DB_HI |-> tiene, poligonos |-> poligonos]

\* Noise layers of the run: without the DB_HI column; without polygons; one
\* polygon over every parcel or over parcel 1 only, at 45, 65.001 or 120 dB;
\* two overlapping polygons.
RuidosDelScript(k) ==
    {CapaRuido(FALSE, << Poligono(0, k + 1, 45000) >>), CapaRuido(TRUE, << >>)}
    \cup {CapaRuido(TRUE, << Poligono(0, hi, db) >>) :
            hi \in {2, k + 1}, db \in {45000, 65001, 120000}}
    \cup {CapaRuido(TRUE, << Poligono(0, k + 1, 45000), Poligono(0, 2, 65001) >>)}

Init ==
    /\ pc = "cuartil_zver"
    /\ \E k \in 1..MaxParcelas :
         /\ geom = ParcelasEnFila(k)
         /\ ruido_trafico \in RuidosDelScript(k)
    /\ parcelas = TablaVacia
    /\ err = ""
    /\ resultado = << >>
    /\ traza = << >>

Cuartil_zver == Cuartil("cuartil_zver", CapasDeUnPunto, "dist_zver", "cuart_zver")

Cuartil_metro == Cuartil("cuartil_metro", CapasDeUnPunto, "dist_metro", "cuart_metr")

Cuartil_bus == Cuartil("cuartil_bus", CapasDeUnPunto, "dist_bus", "cuart_bus")

Cuartil_salud == Cuartil("cuartil_salud", CapasDeUnPunto, "dist_salud", "cuart_salu")

Cuartil_edu == Cuartil("cuartil_edu", CapasDeUnPunto, "dist_edu", "cuart_edu")

Cuartil_deport == Cuartil("cuartil_deport", CapasDeUnPunto, "dist_depor", "cuart_depo")

SumaGrupos ==
    /\ Paso("suma_grupos", SumarGrupos(parcelas))
    /\ UNCHANGED <<geom, ruido_trafico, resultado>>

NormalizarTrans ==
    /\ Paso("norm_trans",
            [df |-> ConColumna(parcelas, "sum_tran_n",
                               normalizar_rango_fijo(parcelas["sum_trans"], 2, 8)),
             err |-> ""])
    /\ UNCHANGED <<geom, ruido_trafico, resultado>>

NormalizarServ ==
    /\ Paso("norm_serv",
            [df |-> ConColumna(parcelas, "sum_serv_n",
                               normalizar_rango_fijo(parcelas["sum_serv"], 3, 12)),
             err |-> ""])
    /\ UNCHANGED <<geom, ruido_trafico, resultado>>

UnionRuido ==
    /\ Paso("union_ruido", UnirRuido(parcelas, geom, ruido_trafico))
    /\ UNCHANGED <<geom, ruido_trafico, resultado>>

ClasificarRuido ==
    /\ Paso("clasificar_ruido",
            [df |-> ConColumna(parcelas, "ru_veh",
                               ClasificarDecibelios(parcelas["DB_VEH"])),
             err |-> ""])
    /\ UNCHANGED <<geom, ruido_trafico, resultado>>

IndiceFinal ==
    /\ Paso("indice",
            [df |-> ConColumna(parcelas, "indice_contexto_total",
                               indice_contexto_total(parcelas)),
             err |-> ""])
    /\ UNCHANGED <<geom, ruido_trafico, resultado>>

Exportar ==
    /\ Paso("exportar", [df |-> parcelas, err |-> ""])
    /\ resultado' = << SinCentroide(parcelas) >>
    /\ UNCHANGED <<geom, ruido_trafico>>

Next ==
    \/ Cuartil_zver
    \/ Cuartil_metro
    \/ Cuartil_bus
    \/ Cuartil_salud
    \/ Cuartil_edu
    \/ Cuartil_deport
    \/ SumaGrupos
    \/ NormalizarTrans
    \/ NormalizarServ
    \/ UnionRuido
    \/ ClasificarRuido
    \/ IndiceFinal
    \/ Exportar

Spec == Init /\ [][Next]_vars

\* ------------------------------------------- specification: one criterion

Poblaciones == UNION {[1..k -> 0..MaxPos] : k \in 1..MaxParcelas}

Capas == SUBSET (0..MaxPos)

InitCuartil ==
    /\ pc = "cuartil_zver"
    /\ geom \in Poblaciones
    /\ ruido_trafico = CapaRuido(TRUE, << >>)
    /\ parcelas = TablaVacia
    /\ err = ""
    /\ resultado = << >>
    /\ traza = << >>

EvaluarCuartil == Cuartil("cuartil_zver", Capas, "dist_zver", "cuart_zver")

NextCuartil == EvaluarCuartil

SpecCuartil == InitCuartil /\ [][NextCuartil]_vars

\* ----------------------------------------------- claims on calcular_cuartil


TieneColumna(nombre) == nombre \in DOMAIN parcelas

ValoresDistintos(col) == {col[i] : i \in Filas(col)}

Grupo(col, r) == Cardinality({i \in Filas(col) : col[i] = << r >>})

\* C4 (as stated): whenever the distance column of a criterion over a
\* population of at least four parcels has fewer than four distinct values,
\* calcular_cuartil completes without raising, so the run is not aborted.
C4_DegeneradoNoAborta ==
    (/\ pc # "cuartil_zver"
     /\ Len(geom) >= 4
     /\ TieneColumna("dist_zver")
     /\ \A i \in Filas(geom) : ~IsNaN(parcelas["dist_zver"][i])
     /\ Cardinality(ValoresDistintos(parcelas["dist_zver"])) < 4)
    => err = ""

\* C5: when calcular_cuartil completes, every rank is in {1,2,3,4}, rank is
\* non-decreasing in distance (equal distances, equal ranks), and with all
\* distances distinct the sizes of the four rank groups differ by at most one.
C5_RangoCuartil ==
    TieneColumna("cuart_zver") =>
      LET d == parcelas["dist_zver"]
          c == parcelas["cuart_zver"]
      IN /\ \A i \in Filas(geom) : c[i] \in {<<1>>, <<2>>, <<3>>, <<4>>}
         /\ \A i, j \in Filas(geom) :
               d[i][1] <= d[j][1] => c[i][1] <= c[j][1]
         /\ (Cardinality(ValoresDistintos(d)) = Len(d)) =>
               \A r, s \in 1..4 : Grupo(c, r) - Grupo(c, s) <= 1

\* C5 witness: a completed ranking of four parcels in which two parcels are
\* at the same distance and share a rank, and some rank is unused.
C5_Testigo ==
    /\ TieneColumna("cuart_zver")
    /\ Len(geom) = 4
    /\ \E i, j \in Filas(geom) :
         /\ i # j
         /\ parcelas["dist_zver"][i] = parcelas["dist_zver"][j]
         /\ parcelas["cuart_zver"][i] = parcelas["cuart_zver"][j]
    /\ \E r \in 1..4 : Grupo(parcelas["cuart_zver"], r) = 0

\* C7 (as stated): a distance stored for a parcel is never the undefined
\* value; an empty reference layer makes the distance evaluation itself fail.
C7_DistanciaNuncaIndefinida ==
    TieneColumna("dist_zver") =>
      \A i \in Filas(geom) : ~IsNaN(parcelas["dist_zver"][i])


\* --------------------------------------- specification: the noise stages

\* Decibel readings explored (thousandths of a dB): the edges of the bins,
\* their neighbours, and readings outside [0, 100].
DecibeliosMuestra == {-1, 0, 44900, 45000, 64999, 65000, 100000, 100001}

\* A polygon around one parcel's point, or one around every parcel's point.
PoligonosRuido(k) ==
    {Poligono(i - 1, i + 1, db) : i \in 1..k, db \in DecibeliosMuestra}
    \cup {Poligono(0, k + 1, db) : db \in DecibeliosMuestra}

SecuenciasHasta(S, m) == UNION {[1..j -> S] : j \in 0..m}

InitRuido ==
    /\ pc = "union_ruido"
    /\ \E k \in 1..MaxParcelasRuido :
         /\ geom = ParcelasEnFila(k)
         /\ \/ \E ps \in SecuenciasHasta(PoligonosRuido(k), MaxPoligonos) :
                 ruido_trafico = CapaRuido(TRUE, ps)
            \/ ruido_trafico = CapaRuido(FALSE, << Poligono(0, k + 1, 45000) >>)
    /\ parcelas = TablaVacia
    /\ err = ""
    /\ resultado = << >>
    /\ traza = << >>

NextRuido == UnionRuido \/ ClasificarRuido

SpecRuido == InitRuido /\ [][NextRuido]_vars

\* ------------------------------------------ specification: the normaliser

ColumnasDe(k, lo, hi) == [1..k -> (lo - MaxExceso)..(hi + MaxExceso)]

InitNorm ==
    /\ pc = "norm_trans"
    /\ \E k \in 1..MaxFilasNorm :
         /\ geom = ParcelasEnFila(k)
         /\ \/ \E col \in ColumnasDe(k, 2, 8) :
                 parcelas = [sum_trans |-> col, sum_serv |-> [i \in 1..k |-> 3]]
            \/ \E col \in ColumnasDe(k, 3, 12) :
                 parcelas = [sum_trans |-> [i \in 1..k |-> 2], sum_serv |-> col]
    /\ ruido_trafico = CapaRuido(TRUE, << >>)
    /\ err = ""
    /\ resultado = << >>
    /\ traza = << >>

NextNorm == NormalizarTrans \/ NormalizarServ

SpecNorm == InitNorm /\ [][NextNorm]_vars

\* ------------------------------------------------- claims on the noise band

EnIntervalo(v, lo, hi) == lo <= v /\ v <= hi

\* C1 (as stated): the band of a decibel value uses bins closed on the left:
\* [0,45) -> 1, [45,55) -> 2, [55,65) -> 3, [65,100] -> 4.
C1_BinsCerradosIzquierda ==
    TieneColumna("ru_veh") =>
      \A i \in Filas(geom) :
        LET x == parcelas["DB_VEH"][i]
            b == parcelas["ru_veh"][i]
        IN ~IsNaN(x) =>
             /\ EnIntervalo(x[1], 0, 44999) => b = <<1>>
             /\ EnIntervalo(x[1], 45000, 54999) => b = <<2>>
             /\ EnIntervalo(x[1], 55000, 64999) => b = <<3>>
             /\ EnIntervalo(x[1], 65000, 100000) => b = <<4>>

\* C1 (amended): the band of a decibel value uses bins closed on the right,
\* the lowest edge included: [0,45] -> 1, (45,55] -> 2, (55,65] -> 3,
\* (65,100] -> 4; so 44.9 -> 1, 45.0 -> 1, 64.999 -> 3, 65.0 -> 3.
C1_BinsCerradosDerecha ==
    TieneColumna("ru_veh") =>
      \A i \in Filas(geom) :
        LET x == parcelas["DB_VEH"][i]
            b == parcelas["ru_veh"][i]
        IN ~IsNaN(x) =>
             /\ EnIntervalo(x[1], 0, 45000) => b = <<1>>
             /\ EnIntervalo(x[1], 45001, 55000) => b = <<2>>
             /\ EnIntervalo(x[1], 55001, 65000) => b = <<3>>
             /\ EnIntervalo(x[1], 65001, 100000) => b = <<4>>
             /\ x[1] = 44900 => b = <<1>>
             /\ x[1] = 45000 => b = <<1>>
             /\ x[1] = 64999 => b = <<3>>
             /\ x[1] = 65000 => b = <<3>>

\* C1 witness: one parcel read 45.0 dB and was banded 1, another read 65.0 dB
\* and was banded 3.
C1_Testigo ==
    /\ TieneColumna("ru_veh")
    /\ \E i, j \in Filas(geom) :
         /\ parcelas["DB_VEH"][i] = <<45000>> /\ parcelas["ru_veh"][i] = <<1>>
         /\ parcelas["DB_VEH"][j] = <<65000>> /\ parcelas["ru_veh"][j] = <<3>>

\* The first polygon of the layer whose interior holds the point, if any.
PrimerDB(punto, poligonos) ==
    LET S == {k \in 1..Len(poligonos) : Within(punto, poligonos[k])}
    IN IF S = {} THEN NaN ELSE << poligonos[Min(S)].DB_HI >>

\* C3 (as stated): once the lookup has run on a layer that has the decibel
\* column, every parcel holds exactly one DB_VEH, that of the first polygon
\* containing its representative point, absent when none does; also when
\* polygons overlap.
C3_PrimerPoligono ==
    (pc \notin {"union_ruido"} /\ ruido_trafico.tiene_DB_HI) =>
      /\ TieneColumna("DB_VEH")
      /\ \A i \in Filas(geom) :
           parcelas["DB_VEH"][i] = PrimerDB(geom[i], ruido_trafico.poligonos)

\* C8 (as stated): in a run that was not rejected, a parcel whose decibel value
\* lies outside [0,100] has been clamped to a band in {1,2,3,4}.
C8_FueraDeRangoAcotado ==
    (resultado # << >>) =>
      \A i \in Filas(geom) :
        LET x == resultado[1]["DB_VEH"][i]
        IN (~IsNaN(x) /\ ~EnIntervalo(x[1], 0, 100000)) =>
             resultado[1]["ru_veh"][i] \in {<<1>>, <<2>>, <<3>>, <<4>>}

\* --------------------------------------------------- claims on the scores

\* C2: the index is sum_zver + sum_tran_n + sum_serv_n + band, an absent
\* decibel value gives an absent band, counted as 0 only in the index; the
\* index is in [4,16] with a band and in [3,12] without.
C2_IndiceTotal ==
    /\ TieneColumna("ru_veh") =>
         \A i \in Filas(geom) :
           IsNaN(parcelas["DB_VEH"][i]) => IsNaN(parcelas["ru_veh"][i])
    /\ TieneColumna("indice_contexto_total") =>
         \A i \in Filas(geom) :
           LET b == parcelas["ru_veh"][i]
               base == parcelas["sum_zver"][i] + parcelas["sum_tran_n"][i]
                         + parcelas["sum_serv_n"][i]
               total == parcelas["indice_contexto_total"][i]
           IN /\ IsNaN(b) => (total = base /\ total \in 3..12)
              /\ ~IsNaN(b) =>
                   (b[1] \in 1..4 /\ total = base + b[1] /\ total \in 4..16)

\* C2 witness: an index was computed for a parcel with a band and for a parcel
\* without one.
C2_Testigo ==
    /\ TieneColumna("indice_contexto_total")
    /\ \E i, j \in Filas(geom) :
         /\ IsNaN(parcelas["ru_veh"][i])
         /\ parcelas["indice_contexto_total"][i] = 12
         /\ parcelas["ru_veh"][j] = <<4>>

\* C6: sum_trans = rail rank + bus rank is in [2,8], sum_serv = health +
\* education + sports ranks is in [3,12]; each normalised score is in [1,4]
\* and is an integer nearest to the linear rescale of the parcel's own sum
\* between the fixed bounds (2,8), (3,12): parcels with equal sums get equal
\* scores whatever the other parcels' sums are.
C6_SumasYNormalizacion ==
    /\ TieneColumna("sum_serv") =>
         \A i \in Filas(geom) :
           /\ parcelas["sum_trans"][i]
                = parcelas["cuart_metr"][i][1] + parcelas["cuart_bus"][i][1]
           /\ parcelas["sum_serv"][i]
                = parcelas["cuart_salu"][i][1] + parcelas["cuart_edu"][i][1]
                    + parcelas["cuart_depo"][i][1]
           /\ parcelas["sum_trans"][i] \in 2..8
           /\ parcelas["sum_serv"][i] \in 3..12
    /\ TieneColumna("sum_tran_n") =>
         \A i \in Filas(geom) :
           /\ parcelas["sum_tran_n"][i] \in 1..4
           /\ Abs(2 * parcelas["sum_tran_n"][i] - parcelas["sum_trans"][i]) <= 1
    /\ TieneColumna("sum_serv_n") =>
         \A i \in Filas(geom) :
           /\ parcelas["sum_serv_n"][i] \in 1..4
           /\ Abs(3 * parcelas["sum_serv_n"][i] - parcelas["sum_serv"][i]) <= 1

\* C6 witness: both scores were normalised, for a population whose transport
\* sums are all 5 (observed minimum = observed maximum) and get the score 2.
C6_Testigo ==
    /\ TieneColumna("sum_serv_n")
    /\ Len(geom) >= 2
    /\ \A i \in Filas(geom) :
         parcelas["sum_trans"][i] = 5 /\ parcelas["sum_tran_n"][i] = 2
    /\ \E i \in Filas(geom) : parcelas["sum_serv_n"][i] = 4

EsPrefijo(a, b) == Len(a) <= Len(b) /\ \A k \in 1..Len(a) : a[k] = b[k]

\* C9: the stages complete in the script's order; the result is written only
\* after all of them completed; a run in which a stage raised has stopped and
\* has written nothing.
C9_EscrituraAlFinal ==
    /\ EsPrefijo(traza, EtapasEnOrden)
    /\ (resultado # << >>) => (err = "" /\ traza = EtapasEnOrden)
    /\ (err # "") => (resultado = << >> /\ pc = "abortado")
    /\ (pc = "abortado") => ~ENABLED Next

\* C9 witness: a run that wrote its result.
C9_Testigo ==
    /\ pc = "fin"
    /\ resultado # << >>
    /\ "indice_contexto_total" \in DOMAIN resultado[1]

TablaTrans == <<1, 2, 2, 2, 3, 4, 4>>

TablaServ == <<1, 1, 2, 2, 2, 3, 3, 3, 4, 4>>

NormalizaComo(entrada, salida, min_ref, max_ref, tabla) ==
    \A i \in Filas(geom) :
      LET s == parcelas[entrada][i]
          v == parcelas[salida][i]
      IN /\ (s \in min_ref..max_ref) => v = tabla[s - min_ref + 1]
         /\ (s <= min_ref) => v = 1
         /\ (s >= max_ref) => v = 4
         /\ \A j \in Filas(geom) :
              s <= parcelas[entrada][j] => v <= parcelas[salida][j]

\* C10: normalizar_rango_fijo rounds the clamped rescale half-to-even and is
\* non-decreasing: transport sums 2..8 give 1,2,2,2,3,4,4, services sums
\* 3..12 give 1,1,2,2,2,3,3,3,4,4; the minimum (and anything below) gives 1,
\* the maximum (and anything above) gives 4.
C10_NormalizarRangoFijo ==
    /\ TieneColumna("sum_tran_n") =>
         NormalizaComo("sum_trans", "sum_tran_n", 2, 8, TablaTrans)
    /\ TieneColumna("sum_serv_n") =>
         NormalizaComo("sum_serv", "sum_serv_n", 3, 12, TablaServ)

\* C10 witness: the midpoint 5 of the transport range was normalised to 2
\* next to a sum of 3 normalised to 2.
C10_Testigo ==
    /\ TieneColumna("sum_serv_n")
    /\ \E i, j \in Filas(geom) :
         /\ parcelas["sum_trans"][i] = 5 /\ parcelas["sum_tran_n"][i] = 2
         /\ parcelas["sum_trans"][j] = 3 /\ parcelas["sum_tran_n"][j] = 2

====
